---- MODULE Spec2Model ----
(***************************************************************************)
(* Model of the two SparseMerkleTree implementations of merkle_tree_svm:   *)
(*   src/src/smt.rs         keyed by the hash of an account's Pubkey       *)
(*   src/src/smt_solana.rs  keyed by the insertion index of a transaction  *)
(*                                                                         *)
(* Digests.  solana_sha256_hasher::hashv is SHA-256 over the concatenation *)
(* of its slices.  It is modelled as an injective constructor: the digest  *)
(* of a byte string is the pair <<"H", preimage>>, so two digests are      *)
(* equal exactly when their preimages are (no collisions).  A preimage is  *)
(* a sequence of symbols: a 32-byte Pubkey or a 32-byte Hash is one        *)
(* symbol, a bincode integer field is one symbol.  The all-zero Hash is    *)
(* the separate value ZERO_HASH, which is not the image of any preimage.   *)
(***************************************************************************)
EXTENDS Integers, Sequences, FiniteSets, TLC

\* ------------------------------------------------------------- bounds
\* Number of loop iterations of update_path / generate_proof (256 in the
\* source, smt.rs:73 and smt.rs:99), scaled down.
DEPTH == 3

\* Number of distinct Pubkeys the callers use.
NumPubkeys == 2

\* Number of insert calls made on one account tree.
MaxInserts == 3

\* Number of loop iterations of the transaction tree's insert (TREE_DEPTH =
\* 256 in smt_solana.rs:8), scaled down.  An index is a u64, so in the
\* source it reaches 0 well within the loop; MaxTx keeps that true here.
TREE_DEPTH == 4

\* Number of insert calls made on one transaction tree.
MaxTx == 4

\* Number of insert calls made on the pair of instances compared for
\* determinism.
MaxScript == 2

\* Number of insert calls made on the pair of trees whose calls are run
\* one loop iteration at a time.
MaxRunCalls == 2

Pubkeys == 1..NumPubkeys

\* ------------------------------------------------------------- state
VARIABLES
    nodes, leaves, root,   \* the fields of the account tree
    last,                  \* the last call made on it
    ret,                   \* what that call returned
    pre,                   \* the fields as they were when that call was made
    ninserts,              \* insert calls made so far
    hist                   \* the inserts of non-empty accounts that did not return early

VARIABLES
    tree, tx_root, next_index,   \* the fields of the transaction tree
    tx_last,               \* the last call made on it
    tx_ret,                \* what that call returned
    tx_pre,                \* the fields as they were when that call was made
    tx_log                 \* per insert made: the transaction and get_root() after it

\* Two further instances of each tree, in one process, given the same calls.
VARIABLES
    det_script,            \* the insert calls made on the first, with the roots it had after each
    det_a,                 \* the first pair of trees
    det_b                  \* the second pair, and how many of the calls it has been given

\* One tree of each kind, with the loops of their methods run one iteration
\* per step.
VARIABLES
    run_pc,                \* "idle", or the loop the call in progress is in
    run_op,                \* the public method called last, and its arguments
    run_entry,             \* the two trees as they were when it was called
    run_acct,              \* the account tree
    run_tx,                \* the transaction tree
    run_loc,               \* the locals of the loop
    run_iters,             \* iterations of the loop made by that call
    run_ret,               \* what the last call that returned returned
    run_ncalls             \* insert calls made so far

acct_vars == <<nodes, leaves, root, last, ret, pre, ninserts, hist>>

tx_vars == <<tree, tx_root, next_index, tx_last, tx_ret, tx_pre, tx_log>>

det_vars == <<det_script, det_a, det_b>>

run_vars == <<run_pc, run_op, run_entry, run_acct, run_tx, run_loc, run_iters,
              run_ret, run_ncalls>>

vars == <<acct_vars, tx_vars, det_vars, run_vars>>

\* ------------------------------------------------------------- digests
ZERO_HASH == <<"0", <<>>>>

hashv(preimage) == <<"H", preimage>>

\* bincode::serialize of solana_sdk::account::Account: the fields in
\* declaration order, the Vec<u8> prefixed by its length.
serialize_account(account) ==
    <<account.lamports, Len(account.data)>> \o account.data
        \o <<account.owner, IF account.executable THEN 1 ELSE 0, account.rent_epoch>>

hash_account(account) == hashv(serialize_account(account))

hash_key(pubkey) == hashv(<<pubkey>>)

hash_nodes(left, right) == hashv(<<left, right>>)

RECURSIVE SumSeq(_)
SumSeq(s) == IF s = <<>> THEN 0 ELSE Head(s) + SumSeq(Tail(s))

\* key.as_ref()[0]: the first byte of a digest.  For ZERO_HASH it is 0.  For
\* a SHA-256 output it is a fixed function of the preimage; the function
\* chosen here gives the path keys of distinct Pubkeys distinct parity
\* sequences within DEPTH levels, as SHA-256 does within 256 levels except
\* with probability 2^-256, and makes both parities occur.
RECURSIVE FirstByte(_)
FirstByte(h) ==
    IF h = ZERO_HASH THEN 0
    ELSE LET b == h[2] IN
         IF Len(b) = 1 THEN (77 * b[1] + 6) % 256
         ELSE IF Len(b) = 2
              THEN ((FirstByte(b[1]) \div 2) + 3 * FirstByte(b[2])) % 256
              ELSE SumSeq(b) % 256

\* ------------------------------------------------------------- HashMap
EmptyMap == <<>>

MapGet(m, k) == IF k \in DOMAIN m THEN m[k] ELSE ZERO_HASH

MapInsert(m, k, v) == [x \in (DOMAIN m) \cup {k} |-> IF x = k THEN v ELSE m[x]]

\* ------------------------------------------------------------- smt.rs
\* SparseMerkleTree::new
new == [nodes |-> EmptyMap, leaves |-> EmptyMap, root |-> ZERO_HASH]

\* The accounts the callers insert: the empty account (lamports == 0 and
\* data empty) and three non-empty ones.
Accounts ==
    { [lamports |-> l, data |-> d, owner |-> 1, executable |-> FALSE, rent_epoch |-> 1] :
        l \in {0, 1000}, d \in {<<>>, <<1, 2, 3, 4>>} }

is_empty(account) == account.lamports = 0 /\ account.data = <<>>

\* The for loop of update_path from iteration i on, then self.root = value.
RECURSIVE update_path_from(_, _, _, _)
update_path_from(t, key, value, i) ==
    IF i = DEPTH THEN [t EXCEPT !.root = value]
    ELSE LET sibling == MapGet(t.nodes, key)
             parent_hash == IF FirstByte(key) % 2 = 0
                            THEN hash_nodes(value, sibling)
                            ELSE hash_nodes(sibling, value)
         IN update_path_from([t EXCEPT !.nodes = MapInsert(t.nodes, key, value)],
                             hash_nodes(key, ZERO_HASH), parent_hash, i + 1)

\* update_path as in a tree whose path keys above the leaf level are shared
\* by all leaves: the key of level 1 does not depend on the leaf key.
RECURSIVE update_path_shared_from(_, _, _, _)
update_path_shared_from(t, key, value, i) ==
    IF i = DEPTH THEN [t EXCEPT !.root = value]
    ELSE LET sibling == MapGet(t.nodes, key)
             parent_hash == IF FirstByte(key) % 2 = 0
                            THEN hash_nodes(value, sibling)
                            ELSE hash_nodes(sibling, value)
         IN update_path_shared_from(
                [t EXCEPT !.nodes = MapInsert(t.nodes, key, value)],
                IF i = 0 THEN hash_nodes(ZERO_HASH, ZERO_HASH)
                         ELSE hash_nodes(key, ZERO_HASH),
                parent_hash, i + 1)

update_path_shared(t, key, value) == update_path_shared_from(t, key, value, 0)

\* update_path with the parity test of smt.rs:75 inverted.
RECURSIVE update_path_flipped_from(_, _, _, _)
update_path_flipped_from(t, key, value, i) ==
    IF i = DEPTH THEN [t EXCEPT !.root = value]
    ELSE LET sibling == MapGet(t.nodes, key)
             parent_hash == IF FirstByte(key) % 2 = 1
                            THEN hash_nodes(value, sibling)
                            ELSE hash_nodes(sibling, value)
         IN update_path_flipped_from(
                [t EXCEPT !.nodes = MapInsert(t.nodes, key, value)],
                hash_nodes(key, ZERO_HASH), parent_hash, i + 1)

update_path_flipped(t, key, value) == update_path_flipped_from(t, key, value, 0)

\* update_path as it would be if it stored the parent hash under the
\* current key (self.nodes.insert(key, parent_hash)).
RECURSIVE update_path_stores_parent_from(_, _, _, _)
update_path_stores_parent_from(t, key, value, i) ==
    IF i = DEPTH THEN [t EXCEPT !.root = value]
    ELSE LET sibling == MapGet(t.nodes, key)
             parent_hash == IF FirstByte(key) % 2 = 0
                            THEN hash_nodes(value, sibling)
                            ELSE hash_nodes(sibling, value)
         IN update_path_stores_parent_from(
                [t EXCEPT !.nodes = MapInsert(t.nodes, key, parent_hash)],
                hash_nodes(key, ZERO_HASH), parent_hash, i + 1)

update_path_stores_parent(t, key, value) ==
    update_path_stores_parent_from(t, key, value, 0)

\* update_path as it would be if it rebuilt nodes from scratch on each call.
update_path_cleared(t, key, value) ==
    update_path_from([t EXCEPT !.nodes = EmptyMap], key, value, 0)

update_path(t, key, value) == update_path_from(t, key, value, 0)

leaf_hash_of(account) ==
    IF is_empty(account) THEN ZERO_HASH ELSE hash_account(account)

\* Whether insert takes the early return of smt.rs:55-60.
skips(t, pubkey) ==
    /\ hash_key(pubkey) \in DOMAIN t.leaves
    /\ t.leaves[hash_key(pubkey)] = ZERO_HASH

\* insert without the leaf_hash != ZERO_HASH test of smt.rs:65.
insert_always_updates(t, pubkey, account) ==
    LET leaf_key == hash_key(pubkey)
        leaf_hash == leaf_hash_of(account)
    IN IF skips(t, pubkey) THEN t
       ELSE update_path([t EXCEPT !.leaves = MapInsert(t.leaves, leaf_key, leaf_hash)],
                        leaf_key, leaf_hash)

\* insert without the early return of smt.rs:55-60 and without the test of
\* smt.rs:65: every call writes the leaf and updates the path.
insert_unguarded(t, pubkey, account) ==
    LET leaf_key == hash_key(pubkey)
        leaf_hash == leaf_hash_of(account)
    IN update_path([t EXCEPT !.leaves = MapInsert(t.leaves, leaf_key, leaf_hash)],
                   leaf_key, leaf_hash)

insert(t, pubkey, account) ==
    LET leaf_key == hash_key(pubkey)
        leaf_hash == leaf_hash_of(account)
    IN IF skips(t, pubkey) THEN t
       ELSE LET t1 == [t EXCEPT !.leaves = MapInsert(t.leaves, leaf_key, leaf_hash)]
            IN IF leaf_hash # ZERO_HASH
               THEN update_path(t1, leaf_key, leaf_hash)
               ELSE t1

get_root(t) == t.root

\* The for loop of generate_proof from iteration i on.
RECURSIVE proof_from(_, _, _, _)
proof_from(t, key, proof, i) ==
    IF i = DEPTH THEN proof
    ELSE proof_from(t, hash_nodes(key, ZERO_HASH),
                    Append(proof, MapGet(t.nodes, key)), i + 1)

\* generate_proof as it would be if a missing node defaulted to self.root
\* (unwrap_or(self.root)).
RECURSIVE proof_root_default_from(_, _, _, _)
proof_root_default_from(t, key, proof, i) ==
    IF i = DEPTH THEN proof
    ELSE proof_root_default_from(
             t, hash_nodes(key, ZERO_HASH),
             Append(proof, IF key \in DOMAIN t.nodes THEN t.nodes[key] ELSE t.root),
             i + 1)

generate_proof_root_default(t, pubkey) ==
    [tag |-> "Some", val |-> proof_root_default_from(t, hash_key(pubkey), <<>>, 0)]

\* generate_proof as it would be if an unknown key gave None.
generate_proof_known_only(t, pubkey) ==
    IF hash_key(pubkey) \in DOMAIN t.nodes
    THEN [tag |-> "Some", val |-> proof_from(t, hash_key(pubkey), <<>>, 0)]
    ELSE [tag |-> "None", val |-> <<>>]

generate_proof(t, pubkey) ==
    [tag |-> "Some", val |-> proof_from(t, hash_key(pubkey), <<>>, 0)]

\* ------------------------------------------------------------- smt_solana.rs
\* SparseMerkleTree::new
tx_new == [tree |-> EmptyMap, root |-> ZERO_HASH, next_index |-> 0]

\* The TransactionData values the callers insert.
Transactions ==
    { [sender |-> 1, receiver |-> 2, amount |-> 5],
      [sender |-> 1, receiver |-> 2, amount |-> 7],
      [sender |-> 2, receiver |-> 1, amount |-> 5] }

\* bincode::serialize of TransactionData: the fields in declaration order.
serialize_transaction(transaction_data) ==
    <<transaction_data.sender, transaction_data.receiver, transaction_data.amount>>

tx_hash_nodes(left, right) == hashv(<<left, right>>)

\* index ^ 1
xor1(index) == IF index % 2 = 0 THEN index + 1 ELSE index - 1

\* The for loop of insert from iteration level on, then self.root = current_hash.
RECURSIVE tx_insert_from(_, _, _, _, _)
tx_insert_from(t, transaction_hash, current_hash, index, level) ==
    IF level = TREE_DEPTH THEN [t EXCEPT !.root = current_hash]
    ELSE LET sibling_index == xor1(index)
             sibling_hash == MapGet(t.tree, sibling_index)
             combined == IF index % 2 = 0
                         THEN tx_hash_nodes(current_hash, sibling_hash)
                         ELSE tx_hash_nodes(sibling_hash, current_hash)
         IN tx_insert_from([t EXCEPT !.tree = MapInsert(t.tree, index, transaction_hash)],
                           transaction_hash, combined, index \div 2, level + 1)

\* The loop of insert with one line changed, by variant:
\*   "snapshot"  the sibling is read from the tree as it was when insert was
\*               called (t0), not as written so far;
\*   "combined"  tree.insert(index, current_hash), after the combination;
\*   "sibling"   tree.insert(sibling_index, transaction_hash).
RECURSIVE tx_insert_variant_from(_, _, _, _, _, _, _)
tx_insert_variant_from(variant, t0, t, transaction_hash, current_hash, index, level) ==
    IF level = TREE_DEPTH THEN [t EXCEPT !.root = current_hash]
    ELSE LET sibling_index == xor1(index)
             sibling_hash == MapGet(IF variant = "snapshot" THEN t0.tree ELSE t.tree,
                                    sibling_index)
             combined == IF index % 2 = 0
                         THEN tx_hash_nodes(current_hash, sibling_hash)
                         ELSE tx_hash_nodes(sibling_hash, current_hash)
             slot == IF variant = "sibling" THEN sibling_index ELSE index
             stored == IF variant = "combined" THEN combined ELSE transaction_hash
         IN tx_insert_variant_from(variant, t0,
                                   [t EXCEPT !.tree = MapInsert(t.tree, slot, stored)],
                                   transaction_hash, combined, index \div 2, level + 1)

tx_insert_variant(variant, t, transaction_data) ==
    LET transaction_hash == hashv(serialize_transaction(transaction_data))
    IN tx_insert_variant_from(variant, t, [t EXCEPT !.next_index = t.next_index + 1],
                              transaction_hash, transaction_hash, t.next_index, 0)

tx_insert_reads_snapshot(t, transaction_data) ==
    tx_insert_variant("snapshot", t, transaction_data)

tx_insert_stores_combined(t, transaction_data) ==
    tx_insert_variant("combined", t, transaction_data)

tx_insert_writes_sibling(t, transaction_data) ==
    tx_insert_variant("sibling", t, transaction_data)

\* insert without self.next_index += 1.
tx_insert_no_increment(t, transaction_data) ==
    LET transaction_hash == hashv(serialize_transaction(transaction_data))
    IN tx_insert_from(t, transaction_hash, transaction_hash, t.next_index, 0)

\* insert without self.root = current_hash.
tx_insert_keeps_root(t, transaction_data) ==
    LET transaction_hash == hashv(serialize_transaction(transaction_data))
        t1 == tx_insert_from([t EXCEPT !.next_index = t.next_index + 1],
                             transaction_hash, transaction_hash, t.next_index, 0)
    IN [t1 EXCEPT !.root = t.root]

\* insert as it would be if the next index were a counter shared by all
\* instances of the process (a static) instead of the field of self.
tx_insert_shared_counter(t, transaction_data) ==
    LET transaction_hash == hashv(serialize_transaction(transaction_data))
    IN tx_insert_from([t EXCEPT !.next_index = t.next_index + 1],
                      transaction_hash, transaction_hash,
                      det_a.tx.next_index + det_b.tx.next_index, 0)

tx_insert(t, transaction_data) ==
    LET transaction_hash == hashv(serialize_transaction(transaction_data))
    IN tx_insert_from([t EXCEPT !.next_index = t.next_index + 1],
                      transaction_hash, transaction_hash, t.next_index, 0)

verify_root(t, candidate) == t.root = candidate

tx_get_root(t) == t.root

\* ------------------------------------------------------------- calls

self == [nodes |-> nodes, leaves |-> leaves, root |-> root]

NoAccount == [lamports |-> 0, data |-> <<>>, owner |-> 1, executable |-> FALSE, rent_epoch |-> 1]

Unit == [tag |-> "Unit", val |-> <<>>]

AcctInit ==
    /\ nodes = new.nodes
    /\ leaves = new.leaves
    /\ root = new.root
    /\ last = [op |-> "new", pubkey |-> 0, account |-> NoAccount]
    /\ ret = Unit
    /\ pre = new
    /\ ninserts = 0
    /\ hist = <<>>

Insert(pubkey, account) ==
    /\ ninserts < MaxInserts
    /\ LET t == insert(self, pubkey, account) IN
        /\ nodes' = t.nodes
        /\ leaves' = t.leaves
        /\ root' = t.root
    /\ last' = [op |-> "insert", pubkey |-> pubkey, account |-> account]
    /\ ret' = Unit
    /\ pre' = self
    /\ ninserts' = ninserts + 1
    /\ hist' = IF ~skips(self, pubkey) /\ ~is_empty(account)
               THEN Append(hist, [pubkey |-> pubkey, account |-> account])
               ELSE hist
    /\ UNCHANGED <<tx_vars, det_vars, run_vars>>

GetRoot ==
    /\ last' = [op |-> "get_root", pubkey |-> 0, account |-> NoAccount]
    /\ ret' = [tag |-> "Hash", val |-> get_root(self)]
    /\ pre' = self
    /\ UNCHANGED <<nodes, leaves, root, ninserts, hist>>
    /\ UNCHANGED <<tx_vars, det_vars, run_vars>>

GenerateProof(pubkey) ==
    /\ last' = [op |-> "generate_proof", pubkey |-> pubkey, account |-> NoAccount]
    /\ ret' = generate_proof(self, pubkey)
    /\ pre' = self
    /\ UNCHANGED <<nodes, leaves, root, ninserts, hist>>
    /\ UNCHANGED <<tx_vars, det_vars, run_vars>>

tx_self == [tree |-> tree, root |-> tx_root, next_index |-> next_index]

NoTransaction == [sender |-> 0, receiver |-> 0, amount |-> 0]

TxInit ==
    /\ tree = tx_new.tree
    /\ tx_root = tx_new.root
    /\ next_index = tx_new.next_index
    /\ tx_last = [op |-> "new", transaction_data |-> NoTransaction, candidate |-> ZERO_HASH]
    /\ tx_ret = Unit
    /\ tx_pre = tx_new
    /\ tx_log = <<>>

TxInsert(transaction_data) ==
    /\ next_index < MaxTx
    /\ LET t == tx_insert(tx_self, transaction_data) IN
        /\ tree' = t.tree
        /\ tx_root' = t.root
        /\ next_index' = t.next_index
        /\ tx_log' = Append(tx_log, [transaction_data |-> transaction_data,
                                      root |-> tx_get_root(t)])
    /\ tx_last' = [op |-> "insert", transaction_data |-> transaction_data,
                   candidate |-> ZERO_HASH]
    /\ tx_ret' = Unit
    /\ tx_pre' = tx_self
    /\ UNCHANGED <<acct_vars, det_vars, run_vars>>

\* The digests a caller holds to pass to verify_root: the default one and
\* the roots it captured after its inserts.
Candidates == {ZERO_HASH} \cup {tx_log[i].root : i \in DOMAIN tx_log}

TxVerifyRoot(candidate) ==
    /\ tx_last' = [op |-> "verify_root", transaction_data |-> NoTransaction,
                   candidate |-> candidate]
    /\ tx_ret' = [tag |-> "Bool", val |-> verify_root(tx_self, candidate)]
    /\ tx_pre' = tx_self
    /\ UNCHANGED <<tree, tx_root, next_index, tx_log>>
    /\ UNCHANGED <<acct_vars, det_vars, run_vars>>

TxGetRoot ==
    /\ tx_last' = [op |-> "get_root", transaction_data |-> NoTransaction,
                   candidate |-> ZERO_HASH]
    /\ tx_ret' = [tag |-> "Hash", val |-> tx_get_root(tx_self)]
    /\ tx_pre' = tx_self
    /\ UNCHANGED <<tree, tx_root, next_index, tx_log>>
    /\ UNCHANGED <<acct_vars, det_vars, run_vars>>

\* The insert calls made on the compared instances.
DetCalls ==
    { [kind |-> "account", pubkey |-> p, account |-> a, transaction_data |-> NoTransaction] :
        p \in Pubkeys, a \in Accounts }
    \cup
    { [kind |-> "transaction", pubkey |-> 0, account |-> NoAccount, transaction_data |-> x] :
        x \in Transactions }

det_apply(inst, call) ==
    IF call.kind = "account"
    THEN [inst EXCEPT !.acct = insert(inst.acct, call.pubkey, call.account)]
    ELSE [inst EXCEPT !.tx = tx_insert(inst.tx, call.transaction_data)]

DetInit ==
    /\ det_script = <<>>
    /\ det_a = [acct |-> new, tx |-> tx_new]
    /\ det_b = [acct |-> new, tx |-> tx_new, pos |-> 0]

\* The caller makes its next insert call on the first instance and notes
\* the roots.
DetCall(call) ==
    /\ Len(det_script) < MaxScript
    /\ LET a == det_apply(det_a, call) IN
        /\ det_a' = a
        /\ det_script' = Append(det_script, [call |-> call,
                                             acct_root |-> get_root(a.acct),
                                             tx_root |-> tx_get_root(a.tx)])
    /\ UNCHANGED <<det_b, acct_vars, tx_vars, run_vars>>

\* The caller makes the next call of the same sequence on the second instance.
DetReplay ==
    /\ det_b.pos < Len(det_script)
    /\ LET b == det_apply(det_b, det_script[det_b.pos + 1].call) IN
        det_b' = [b EXCEPT !.pos = det_b.pos + 1]
    /\ UNCHANGED <<det_a, det_script, acct_vars, tx_vars, run_vars>>

\* ------------------------------------------------------------- loops, stepwise
\* for _ in 0..256 (smt.rs:73, smt.rs:99)
loop_continues_inclusive(i) == i <= DEPTH

loop_continues(i) == i < DEPTH

\* for _level in 0..TREE_DEPTH (smt_solana.rs:49)
tx_loop_continues(level) == level < TREE_DEPTH

NoLocals == [key |-> ZERO_HASH, value |-> ZERO_HASH, proof |-> <<>>,
             transaction_hash |-> ZERO_HASH, index |-> 0]

NoCall == [name |-> "new", pubkey |-> 0, account |-> NoAccount,
           transaction_data |-> NoTransaction, candidate |-> ZERO_HASH]

\* A call in progress has returned nothing yet.
Pending == [tag |-> "Pending", val |-> <<>>]

run_trees == [acct |-> run_acct, tx |-> run_tx]

RunInit ==
    /\ run_pc = "idle"
    /\ run_op = NoCall
    /\ run_entry = [acct |-> new, tx |-> tx_new]
    /\ run_acct = new
    /\ run_tx = tx_new
    /\ run_loc = NoLocals
    /\ run_iters = 0
    /\ run_ret = Unit
    /\ run_ncalls = 0

\* A public method is called: the caller is not inside another call, whose
\* locals are gone.
RunEnter(call) ==
    /\ run_pc = "idle"
    /\ run_op' = call
    /\ run_entry' = run_trees
    /\ run_iters' = 0

\* insert of smt.rs up to the call of update_path (smt.rs:46-66).
RunInsert(pubkey, account) ==
    /\ run_ncalls < MaxRunCalls
    /\ RunEnter([NoCall EXCEPT !.name = "insert", !.pubkey = pubkey, !.account = account])
    /\ run_ncalls' = run_ncalls + 1
    /\ LET leaf_key == hash_key(pubkey)
           leaf_hash == leaf_hash_of(account)
       IN IF skips(run_acct, pubkey)
          THEN /\ run_pc' = "idle"
               /\ run_ret' = Unit
               /\ run_loc' = NoLocals
               /\ UNCHANGED run_acct
          ELSE /\ run_acct' = [run_acct EXCEPT
                                  !.leaves = MapInsert(run_acct.leaves, leaf_key, leaf_hash)]
               /\ IF leaf_hash # ZERO_HASH
                  THEN /\ run_pc' = "update_path"
                       /\ run_loc' = [NoLocals EXCEPT !.key = leaf_key, !.value = leaf_hash]
                       /\ run_ret' = Pending
                  ELSE /\ run_pc' = "idle"
                       /\ run_ret' = Unit
                       /\ run_loc' = NoLocals
    /\ UNCHANGED <<run_tx, acct_vars, tx_vars, det_vars>>

\* One iteration of the loop of update_path (smt.rs:74-83).
RunUpdatePathStep ==
    /\ run_pc = "update_path"
    /\ loop_continues(run_iters)
    /\ LET key == run_loc.key
           value == run_loc.value
           sibling == MapGet(run_acct.nodes, key)
           parent_hash == IF FirstByte(key) % 2 = 0
                          THEN hash_nodes(value, sibling)
                          ELSE hash_nodes(sibling, value)
       IN /\ run_acct' = [run_acct EXCEPT !.nodes = MapInsert(run_acct.nodes, key, value)]
          /\ run_loc' = [run_loc EXCEPT !.value = parent_hash,
                                        !.key = hash_nodes(key, ZERO_HASH)]
    /\ run_iters' = run_iters + 1
    /\ UNCHANGED <<run_pc, run_op, run_entry, run_tx, run_ret, run_ncalls>>
    /\ UNCHANGED <<acct_vars, tx_vars, det_vars>>

\* The loop of update_path is over: self.root = value, and insert returns.
RunUpdatePathReturn ==
    /\ run_pc = "update_path"
    /\ ~loop_continues(run_iters)
    /\ run_acct' = [run_acct EXCEPT !.root = run_loc.value]
    /\ run_pc' = "idle"
    /\ run_ret' = Unit
    /\ run_loc' = NoLocals
    /\ UNCHANGED <<run_op, run_entry, run_tx, run_iters, run_ncalls>>
    /\ UNCHANGED <<acct_vars, tx_vars, det_vars>>

\* generate_proof up to its loop (smt.rs:96-97).
RunGenerateProof(pubkey) ==
    /\ RunEnter([NoCall EXCEPT !.name = "generate_proof", !.pubkey = pubkey])
    /\ run_pc' = "generate_proof"
    /\ run_loc' = [NoLocals EXCEPT !.key = hash_key(pubkey)]
    /\ run_ret' = Pending
    /\ UNCHANGED <<run_acct, run_tx, run_ncalls>>
    /\ UNCHANGED <<acct_vars, tx_vars, det_vars>>

\* One iteration of the loop of generate_proof (smt.rs:100-102).
RunProofStep ==
    /\ run_pc = "generate_proof"
    /\ loop_continues(run_iters)
    /\ run_loc' = [run_loc EXCEPT
                      !.proof = Append(run_loc.proof, MapGet(run_acct.nodes, run_loc.key)),
                      !.key = hash_nodes(run_loc.key, ZERO_HASH)]
    /\ run_iters' = run_iters + 1
    /\ UNCHANGED <<run_pc, run_op, run_entry, run_acct, run_tx, run_ret, run_ncalls>>
    /\ UNCHANGED <<acct_vars, tx_vars, det_vars>>

\* The loop of generate_proof is over: Some(proof).
RunProofReturn ==
    /\ run_pc = "generate_proof"
    /\ ~loop_continues(run_iters)
    /\ run_pc' = "idle"
    /\ run_ret' = [tag |-> "Some", val |-> run_loc.proof]
    /\ run_loc' = NoLocals
    /\ UNCHANGED <<run_op, run_entry, run_acct, run_tx, run_iters, run_ncalls>>
    /\ UNCHANGED <<acct_vars, tx_vars, det_vars>>

\* get_root of smt.rs.
RunGetRoot ==
    /\ RunEnter([NoCall EXCEPT !.name = "get_root"])
    /\ run_pc' = "idle"
    /\ run_ret' = [tag |-> "Hash", val |-> run_acct.root]
    /\ UNCHANGED <<run_acct, run_tx, run_loc, run_ncalls>>
    /\ UNCHANGED <<acct_vars, tx_vars, det_vars>>

\* insert of smt_solana.rs up to its loop (smt_solana.rs:41-46).
RunTxInsert(transaction_data) ==
    /\ run_ncalls < MaxRunCalls
    /\ RunEnter([NoCall EXCEPT !.name = "tx_insert", !.transaction_data = transaction_data])
    /\ run_ncalls' = run_ncalls + 1
    /\ LET transaction_hash == hashv(serialize_transaction(transaction_data))
       IN run_loc' = [NoLocals EXCEPT !.transaction_hash = transaction_hash,
                                      !.value = transaction_hash,
                                      !.index = run_tx.next_index]
    /\ run_tx' = [run_tx EXCEPT !.next_index = run_tx.next_index + 1]
    /\ run_pc' = "tx_insert"
    /\ run_ret' = Pending
    /\ UNCHANGED run_acct
    /\ UNCHANGED <<acct_vars, tx_vars, det_vars>>

\* One iteration of the loop of insert (smt_solana.rs:50-60); value is
\* current_hash.
RunTxStep ==
    /\ run_pc = "tx_insert"
    /\ tx_loop_continues(run_iters)
    /\ LET index == run_loc.index
           sibling_hash == MapGet(run_tx.tree, xor1(index))
       IN /\ run_loc' = [run_loc EXCEPT
                            !.value = IF index % 2 = 0
                                      THEN tx_hash_nodes(run_loc.value, sibling_hash)
                                      ELSE tx_hash_nodes(sibling_hash, run_loc.value),
                            !.index = index \div 2]
          /\ run_tx' = [run_tx EXCEPT
                           !.tree = MapInsert(run_tx.tree, index, run_loc.transaction_hash)]
    /\ run_iters' = run_iters + 1
    /\ UNCHANGED <<run_pc, run_op, run_entry, run_acct, run_ret, run_ncalls>>
    /\ UNCHANGED <<acct_vars, tx_vars, det_vars>>

\* The loop of insert is over: self.root = current_hash.
RunTxReturn ==
    /\ run_pc = "tx_insert"
    /\ ~tx_loop_continues(run_iters)
    /\ run_tx' = [run_tx EXCEPT !.root = run_loc.value]
    /\ run_pc' = "idle"
    /\ run_ret' = Unit
    /\ run_loc' = NoLocals
    /\ UNCHANGED <<run_op, run_entry, run_acct, run_iters, run_ncalls>>
    /\ UNCHANGED <<acct_vars, tx_vars, det_vars>>

\* verify_root of smt_solana.rs, with the default digest or the current root.
RunVerifyRoot(candidate) ==
    /\ RunEnter([NoCall EXCEPT !.name = "verify_root", !.candidate = candidate])
    /\ run_pc' = "idle"
    /\ run_ret' = [tag |-> "Bool", val |-> (run_tx.root = candidate)]
    /\ UNCHANGED <<run_acct, run_tx, run_loc, run_ncalls>>
    /\ UNCHANGED <<acct_vars, tx_vars, det_vars>>

\* get_root of smt_solana.rs.
RunTxGetRoot ==
    /\ RunEnter([NoCall EXCEPT !.name = "tx_get_root"])
    /\ run_pc' = "idle"
    /\ run_ret' = [tag |-> "Hash", val |-> run_tx.root]
    /\ UNCHANGED <<run_acct, run_tx, run_loc, run_ncalls>>
    /\ UNCHANGED <<acct_vars, tx_vars, det_vars>>

\* The steps of a call in progress.
RunStep ==
    \/ RunUpdatePathStep
    \/ RunUpdatePathReturn
    \/ RunProofStep
    \/ RunProofReturn
    \/ RunTxStep
    \/ RunTxReturn

RunNext ==
    \/ \E pubkey \in Pubkeys, account \in Accounts : RunInsert(pubkey, account)
    \/ \E pubkey \in Pubkeys : RunGenerateProof(pubkey)
    \/ RunGetRoot
    \/ \E transaction_data \in Transactions : RunTxInsert(transaction_data)
    \/ \E candidate \in {ZERO_HASH, run_tx.root} : RunVerifyRoot(candidate)
    \/ RunTxGetRoot
    \/ RunStep

Init == AcctInit /\ TxInit /\ DetInit /\ RunInit

Next ==
    \/ \E pubkey \in Pubkeys, account \in Accounts : Insert(pubkey, account)
    \/ GetRoot
    \/ \E pubkey \in Pubkeys : GenerateProof(pubkey)

Spec == Init /\ [][Next]_vars

TxNext ==
    \/ \E transaction_data \in Transactions : TxInsert(transaction_data)
    \/ \E candidate \in Candidates : TxVerifyRoot(candidate)
    \/ TxGetRoot

SpecTx == Init /\ [][TxNext]_vars

DetNext ==
    \/ \E call \in DetCalls : DetCall(call)
    \/ DetReplay

SpecDet == Init /\ [][DetNext]_vars

\* The methods are synchronous and single-threaded: a call in progress keeps
\* taking its steps.  Whether another call is made is up to the caller.
SpecRun == Init /\ [][RunNext]_vars /\ WF_vars(RunStep)

\* ------------------------------------------------------------- claims
key_of_last == hash_key(last.pubkey)

\* The last call was insert of a non-empty account.
NonEmptyInsert == last.op = "insert" /\ ~is_empty(last.account)

\* The last call was insert of an empty account.
EmptyInsert == last.op = "insert" /\ is_empty(last.account)

\* C1: after insert of a non-empty account, get_root() differs from
\* get_root() immediately before the call, whatever leaf the Pubkey held.
C1_NonEmptyInsertChangesRoot == NonEmptyInsert => root # pre.root

\* C2: insert returns without mutation only when the stored leaf and the
\* newly computed leaf hash are both ZERO_HASH; otherwise the leaf holds
\* the computed hash afterwards, and a non-empty one has been run through
\* update_path.
C2_EarlyReturnOnlyEmptyOverEmpty ==
    last.op = "insert" =>
        LET value == leaf_hash_of(last.account) IN
        IF skips(pre, last.pubkey) /\ value = ZERO_HASH
        THEN self = pre
        ELSE /\ key_of_last \in DOMAIN leaves
             /\ leaves[key_of_last] = value
             /\ value # ZERO_HASH =>
                    /\ key_of_last \in DOMAIN nodes
                    /\ nodes[key_of_last] = value

\* C3: insert of an empty account leaves root and nodes as they were,
\* whatever leaf the Pubkey held; on a fresh tree root stays ZERO_HASH.
C3_EmptyInsertKeepsRootAndNodes ==
    EmptyInsert =>
        /\ root = pre.root
        /\ nodes = pre.nodes
        /\ pre = new => root = ZERO_HASH

\* An empty account was inserted over a non-default leaf of a tree whose
\* root had been set: leaves changed.
C3_Witness ==
    /\ EmptyInsert
    /\ MapGet(pre.leaves, key_of_last) # ZERO_HASH
    /\ leaves # pre.leaves
    /\ pre.root # ZERO_HASH

\* C4: insert of an empty account for a Pubkey whose stored leaf is
\* ZERO_HASH changes none of root, leaves, nodes.
C4_EmptyOverDefaultIsNoOp ==
    EmptyInsert /\ skips(pre, last.pubkey) => self = pre

\* An empty account was inserted over a stored ZERO_HASH leaf, in a tree
\* that holds nodes written for that same Pubkey.
C4_Witness ==
    /\ EmptyInsert
    /\ skips(pre, last.pubkey)
    /\ key_of_last \in DOMAIN pre.nodes

\* C5: generate_proof returns Some of exactly DEPTH digests, for every
\* Pubkey, and leaves root, leaves and nodes as they were.
C5_ProofIsSomeOfDepth ==
    last.op = "generate_proof" =>
        /\ ret.tag = "Some"
        /\ Len(ret.val) = DEPTH
        /\ self = pre

\* A proof was generated for a Pubkey never inserted, in a tree that holds
\* nodes of another Pubkey.
C5_Witness ==
    /\ last.op = "generate_proof"
    /\ key_of_last \notin DOMAIN leaves
    /\ nodes # EmptyMap

\* The verifier's fold of C6: the update_path rule applied to the proof's
\* elements as siblings.
RECURSIVE fold_proof(_, _, _)
fold_proof(value, proof, key) ==
    IF proof = <<>> THEN value
    ELSE fold_proof(IF FirstByte(key) % 2 = 0
                    THEN hash_nodes(value, Head(proof))
                    ELSE hash_nodes(Head(proof), value),
                    Tail(proof), hash_nodes(key, ZERO_HASH))

\* C6: right after an insert of a non-empty account has taken effect,
\* folding its leaf hash with generate_proof's elements yields get_root().
C6_ProofRecomputesRoot ==
    NonEmptyInsert /\ ~skips(pre, last.pubkey) =>
        fold_proof(hash_account(last.account),
                   generate_proof(self, last.pubkey).val,
                   key_of_last) = get_root(self)

\* C10: no call removes a key of nodes, and one call adds at most DEPTH.
C10_NodesOnlyGrow ==
    /\ DOMAIN pre.nodes \subseteq DOMAIN nodes
    /\ Cardinality(DOMAIN nodes \ DOMAIN pre.nodes) <= DEPTH

\* An insert added DEPTH keys to a nodes map that already held some.
C10_Witness ==
    /\ last.op = "insert"
    /\ pre.nodes # EmptyMap
    /\ Cardinality(DOMAIN nodes \ DOMAIN pre.nodes) = DEPTH

\* C8: next_index is the number of inserts made, insert adds exactly 1 to it
\* and no other call changes it; verify_root(get_root()) is true, and
\* verify_root(c) is true exactly when c is the current root.
C8_NextIndexCountsInserts ==
    /\ next_index = Len(tx_log)
    /\ tx_last.op = "insert" => next_index = tx_pre.next_index + 1
    /\ tx_last.op # "insert" => next_index = tx_pre.next_index
    /\ verify_root(tx_self, tx_get_root(tx_self))
    /\ \A c \in Candidates : verify_root(tx_self, c) <=> c = tx_root
    /\ tx_last.op = "verify_root" => tx_ret.val = (tx_last.candidate = tx_root)

\* verify_root was called, after three inserts, with a digest that is not
\* the root.
C8_Witness ==
    /\ tx_last.op = "verify_root"
    /\ next_index = 3
    /\ tx_ret.val = FALSE

\* C9: every insert changes the root, also when it inserts the transaction
\* of the insert before it; of the roots captured after the inserts,
\* verify_root accepts the most recent one only.
C9_EveryInsertChangesRoot ==
    /\ tx_last.op = "insert" => tx_root # tx_pre.root
    /\ tx_last.op = "insert" => ~verify_root(tx_self, tx_get_root(tx_pre))
    /\ \A i \in DOMAIN tx_log :
           verify_root(tx_self, tx_log[i].root) <=> i = Len(tx_log)

\* After inserting the same transaction twice, verify_root was called with
\* the root captured after the first of the two, and returned false.
C9_Witness ==
    /\ tx_last.op = "verify_root"
    /\ Len(tx_log) >= 2
    /\ tx_log[Len(tx_log)].transaction_data = tx_log[Len(tx_log) - 1].transaction_data
    /\ tx_last.candidate = tx_log[Len(tx_log) - 1].root
    /\ tx_ret.val = FALSE

RECURSIVE replay(_, _)
replay(t, h) ==
    IF h = <<>> THEN t
    ELSE replay(insert(t, Head(h).pubkey, Head(h).account), Tail(h))

last_effective == hist[Len(hist)]

\* The entries of hist made under the Pubkey of its last entry.
same_key_hist == SelectSeq(hist, LAMBDA e : e.pubkey = last_effective.pubkey)

\* C11 as stated: the root is the one a fresh tree gets from the most recent
\* effective non-empty insert alone, whatever was inserted before.
C11_RootOfLastInsertOnly ==
    hist # <<>> =>
        root = get_root(insert(new, last_effective.pubkey, last_effective.account))

\* C11 as amended: the root is the one a fresh tree gets from the effective
\* non-empty inserts made under the Pubkey of the most recent one, in order;
\* inserts under other Pubkeys and inserts of empty accounts do not count.
C11_RootOfSameKeyInserts ==
    hist # <<>> => root = get_root(replay(new, same_key_hist))

\* Two non-empty inserts under one Pubkey took effect, then one under
\* another Pubkey, which set the root.
C11_Witness ==
    /\ Len(hist) = 3
    /\ hist[1].pubkey = hist[2].pubkey
    /\ hist[3].pubkey # hist[1].pubkey
    /\ last.op = "insert"

\* The path key and the path value of level i, as C12 defines them: k_0 = k,
\* k_{i+1} = combine(k_i, default); v_0 = v, v_{i+1} = combine(v_i, s_i) if
\* the first byte of k_i is even, else combine(s_i, v_i), with s_i the value
\* m holds at k_i (default if none).
RECURSIVE path_key(_, _)
path_key(k, i) == IF i = 0 THEN k ELSE hash_nodes(path_key(k, i - 1), ZERO_HASH)

RECURSIVE path_value(_, _, _, _)
path_value(m, k, v, i) ==
    IF i = 0 THEN v
    ELSE LET ki == path_key(k, i - 1)
             vi == path_value(m, k, v, i - 1)
             si == IF ki \in DOMAIN m THEN m[ki] ELSE ZERO_HASH
         IN IF FirstByte(ki) % 2 = 0 THEN hash_nodes(vi, si) ELSE hash_nodes(si, vi)

path_keys(k) == {path_key(k, i) : i \in 0..(DEPTH - 1)}

\* The last call was an insert of a non-empty account that did not return early.
EffectiveInsert == NonEmptyInsert /\ ~skips(pre, last.pubkey)

\* C12: after an insert of a non-empty account that took effect, nodes holds
\* v_i at k_i for every level i, root is v_DEPTH, and nodes is otherwise as
\* it was before the call.
C12_PathUpdateMatchesProcedure ==
    EffectiveInsert =>
        LET k == key_of_last
            v == hash_account(last.account)
        IN /\ \A i \in 0..(DEPTH - 1) :
                  /\ path_key(k, i) \in DOMAIN nodes
                  /\ nodes[path_key(k, i)] = path_value(pre.nodes, k, v, i)
           /\ root = path_value(pre.nodes, k, v, DEPTH)
           /\ DOMAIN nodes = DOMAIN pre.nodes \cup path_keys(k)
           /\ \A x \in DOMAIN nodes \ path_keys(k) : nodes[x] = pre.nodes[x]

\* An insert took effect over a path written by an earlier insert under the
\* same Pubkey, next to the path of another Pubkey, and the path has a key
\* with an even first byte and one with an odd first byte.
C12_Witness ==
    /\ EffectiveInsert
    /\ key_of_last \in DOMAIN pre.nodes
    /\ DOMAIN pre.nodes # path_keys(key_of_last)
    /\ \E x, y \in path_keys(key_of_last) :
           FirstByte(x) % 2 = 0 /\ FirstByte(y) % 2 = 1

\* C17: every key whose leaf is not ZERO_HASH is a key of nodes, and nodes
\* holds the leaf's hash there.
C17_NodeMirrorsNonEmptyLeaf ==
    \A k \in DOMAIN leaves :
        leaves[k] # ZERO_HASH => k \in DOMAIN nodes /\ nodes[k] = leaves[k]

\* The converse fails: after an empty insert over a non-empty leaf the leaf
\* is ZERO_HASH and nodes still holds the old hash; another key has a
\* non-empty leaf mirrored in nodes.
C17_Witness ==
    /\ \E k \in DOMAIN leaves :
           leaves[k] = ZERO_HASH /\ k \in DOMAIN nodes /\ nodes[k] # ZERO_HASH
    /\ \E k \in DOMAIN leaves : leaves[k] # ZERO_HASH

\* The Pubkeys under which no insert of a non-empty account has taken effect.
never_effective == {p \in Pubkeys : \A i \in DOMAIN hist : hist[i].pubkey # p}

\* C18: for a Pubkey under which no non-empty insert has taken effect,
\* every element of generate_proof is ZERO_HASH.
C18_ProofOfUnsetKeyIsDefault ==
    \A p \in never_effective :
        \A j \in DOMAIN generate_proof(self, p).val :
            generate_proof(self, p).val[j] = ZERO_HASH

\* A proof was generated for a Pubkey that was inserted with an empty account
\* only, in a tree whose root was set by another Pubkey.
C18_Witness ==
    /\ last.op = "generate_proof"
    /\ last.pubkey \in never_effective
    /\ key_of_last \in DOMAIN leaves
    /\ root # ZERO_HASH
    /\ \A j \in DOMAIN ret.val : ret.val[j] = ZERO_HASH

\* The last call on the transaction tree was insert; the index it was
\* assigned and its leaf digest.
TxInserted == tx_last.op = "insert"

tx_index_of_last == tx_pre.next_index

tx_leaf_of_last == hashv(serialize_transaction(tx_last.transaction_data))

RECURSIVE pow2(_)
pow2(n) == IF n = 0 THEN 1 ELSE 2 * pow2(n - 1)

\* The index at level j of an insert assigned index i.
level_index(i, j) == i \div pow2(j)

visited_slots(i) == {level_index(i, j) : j \in 0..(TREE_DEPTH - 1)}

\* The sibling C13 has level j read: tree[idx XOR 1] as it stands then, which
\* is L where an earlier level of this insert wrote it, else what m held.
level_sibling(m, i, L, j) ==
    LET sib == xor1(level_index(i, j))
    IN IF \E l \in 0..(j - 1) : level_index(i, l) = sib THEN L
       ELSE IF sib \in DOMAIN m THEN m[sib] ELSE ZERO_HASH

\* current after j levels, as C13 defines it.
RECURSIVE level_current(_, _, _, _)
level_current(m, i, L, j) ==
    IF j = 0 THEN L
    ELSE LET c == level_current(m, i, L, j - 1)
             sib == level_sibling(m, i, L, j - 1)
         IN IF level_index(i, j - 1) % 2 = 0
            THEN tx_hash_nodes(c, sib)
            ELSE tx_hash_nodes(sib, c)

\* combine(...combine(combine(L, default), default)..., default), n times.
RECURSIVE nested_with_default(_, _)
nested_with_default(L, n) ==
    IF n = 0 THEN L ELSE tx_hash_nodes(nested_with_default(L, n - 1), ZERO_HASH)

\* C13: the root an insert stores is the current of the claim's procedure
\* after TREE_DEPTH levels; for the first insert into an empty tree it is the
\* leaf digest combined TREE_DEPTH times with the default digest on the right.
C13_RootMatchesProcedure ==
    TxInserted =>
        /\ tx_root = level_current(tx_pre.tree, tx_index_of_last, tx_leaf_of_last,
                                   TREE_DEPTH)
        /\ tx_pre = tx_new => tx_root = nested_with_default(tx_leaf_of_last, TREE_DEPTH)

\* An insert at index 3 read, at a later level, a slot it had written at
\* an earlier level.
C13_Witness ==
    /\ TxInserted
    /\ tx_index_of_last = 3
    /\ \E j \in 1..(TREE_DEPTH - 1) : \E l \in 0..(j - 1) :
           level_index(tx_index_of_last, l) = xor1(level_index(tx_index_of_last, j))

\* C14: an insert writes its leaf digest at every slot it visits, slot 0
\* among them, and changes no other slot; tree[0] is the leaf digest of the
\* most recent insert and every stored value is the leaf digest of some
\* inserted transaction.
C14_LeafWrittenAtVisitedSlots ==
    /\ TxInserted =>
           /\ 0 \in visited_slots(tx_index_of_last)
           /\ \A x \in visited_slots(tx_index_of_last) :
                  x \in DOMAIN tree /\ tree[x] = tx_leaf_of_last
           /\ DOMAIN tree = DOMAIN tx_pre.tree \cup visited_slots(tx_index_of_last)
           /\ \A x \in DOMAIN tree \ visited_slots(tx_index_of_last) :
                  tree[x] = tx_pre.tree[x]
    /\ tx_log # <<>> =>
           /\ 0 \in DOMAIN tree
           /\ tree[0] = hashv(serialize_transaction(tx_log[Len(tx_log)].transaction_data))
    /\ \A x \in DOMAIN tree : \E n \in DOMAIN tx_log :
           tree[x] = hashv(serialize_transaction(tx_log[n].transaction_data))

\* The insert at index 3 overwrote slots 1 and 0, which held the leaf digest
\* of another transaction, and left slot 2 alone.
C14_Witness ==
    /\ TxInserted
    /\ tx_index_of_last = 3
    /\ tx_pre.tree[1] # tx_leaf_of_last
    /\ tx_pre.tree[0] # tx_leaf_of_last
    /\ tree[2] # tx_leaf_of_last

\* C16: the keys of tree are exactly 0 .. next_index - 1.
C16_KeysAreIndicesBelowNext == DOMAIN tree = 0..(next_index - 1)

\* Four inserts have been made.
C16_Witness == next_index = 4 /\ Cardinality(DOMAIN tree) = 4

\* What the stepwise call that has returned must have done, by the calls
\* taken whole: the trees and the returned value.
RunAgreesWithCalls ==
    run_pc = "idle" =>
        CASE run_op.name = "insert" ->
                 /\ run_acct = insert(run_entry.acct, run_op.pubkey, run_op.account)
                 /\ run_tx = run_entry.tx
          [] run_op.name = "generate_proof" ->
                 /\ run_ret = generate_proof(run_entry.acct, run_op.pubkey)
                 /\ run_trees = run_entry
          [] run_op.name = "get_root" ->
                 /\ run_ret.val = get_root(run_entry.acct)
                 /\ run_trees = run_entry
          [] run_op.name = "tx_insert" ->
                 /\ run_tx = tx_insert(run_entry.tx, run_op.transaction_data)
                 /\ run_acct = run_entry.acct
          [] run_op.name = "verify_root" ->
                 /\ run_ret.val = verify_root(run_entry.tx, run_op.candidate)
                 /\ run_trees = run_entry
          [] run_op.name = "tx_get_root" ->
                 /\ run_ret.val = tx_get_root(run_entry.tx)
                 /\ run_trees = run_entry
          [] OTHER -> run_trees = run_entry

\* The loop iterations a returned call has made: DEPTH for update_path (an
\* insert of a non-empty account that did not return early) and for
\* generate_proof, TREE_DEPTH for the transaction tree's insert, none
\* otherwise; and what it returned is a value, not an error.
RunIterationsExact ==
    run_pc = "idle" =>
        /\ run_iters =
               CASE run_op.name = "insert" ->
                        IF ~skips(run_entry.acct, run_op.pubkey) /\ ~is_empty(run_op.account)
                        THEN DEPTH ELSE 0
                 [] run_op.name = "generate_proof" -> DEPTH
                 [] run_op.name = "tx_insert" -> TREE_DEPTH
                 [] OTHER -> 0
        /\ run_ret.tag \in {"Unit", "Hash", "Some", "Bool"}

\* C15: every call of a public method of either tree returns, after exactly
\* DEPTH (TREE_DEPTH) iterations where it runs a path loop, and with a value.
C15_EveryCallReturns ==
    /\ [](RunIterationsExact)
    /\ (run_pc # "idle") ~> (run_pc = "idle")

\* After an insert into each tree, a generate_proof call has returned after
\* DEPTH iterations.
C15_Witness ==
    /\ run_pc = "idle"
    /\ run_op.name = "generate_proof"
    /\ run_iters = DEPTH
    /\ run_acct.root # ZERO_HASH
    /\ run_tx.root # ZERO_HASH

====
